---- MODULE Spec2Model ----
(***************************************************************************)
(* Recurring care-task scheduling of plantit: care profiles, the tasks     *)
(* they generate, and the task lifecycle, as implemented by                *)
(* backend/repositories/care_profiles.py and backend/repositories/tasks.py *)
(* Dates are day ordinals; day 0 is a Monday, so weekday(d) = d % 7.       *)
(***************************************************************************)
EXTENDS Integers, FiniteSets, Sequences, TLC

\* ------------------------------------------------------------------ bounds
MaxDay == 1          \* the clock runs over days 0..MaxDay; payload dates too
MaxInterval == 2     \* interval_days offered by payloads: 1..MaxInterval
MaxTaskId == 3       \* task ids handed out: 1..MaxTaskId
MaxProfileId == 2    \* care-profile ids handed out: 1..MaxProfileId

\* ---------------------------------------------------------------- values
None == 0 - 1        \* Python's None in an Optional[int|date|UUID] field
Unset == 0 - 2       \* a key absent from a payload (model_dump(exclude_unset=True))

Plants == {1}       \* the plants that exist (plant CRUD is not modelled)
Days == 0..MaxDay
TaskIds == 1..MaxTaskId
ProfileIds == 1..MaxProfileId

PENDING == "pending"
COMPLETED == "completed"
TaskStatus == {PENDING, COMPLETED}

INTERVAL == "interval"
WEEKLY == "weekly"
CareCadenceType == {INTERVAL, WEEKLY}

\* weekly_days lists offered by payloads (already normalised: sorted, 0..6)
WeeklyChoices == {{0, 3}}

VARIABLES
    profiles,       \* care_profiles table: live profile id -> row
    tasks,          \* tasks table: set of rows
    today,          \* date.today() / datetime.now(timezone.utc).date()
    nextTaskId,     \* next fresh task id (uuid4 is always fresh)
    nextProfileId,  \* next fresh profile id
    last,           \* what the last request was and did
    reqs,           \* requests in flight, statement by statement (request slot -> session state)
    calc,           \* one call of a pure function: its arguments and what it returned
    water,          \* plant_watering_events table and the last record-watering request
    cat,            \* per-category variant: one plant's care profile, tasks and logs
    village         \* villages table, the requests in flight against it

vars == <<profiles, tasks, today, nextTaskId, nextProfileId, last, reqs, calc, water, cat, village>>

\* what the requests served as a whole leave alone
aux == <<reqs, calc, water, cat, village>>

\* ------------------------------------------------------- cadence calculator
\* backend.services.cadence.first_due_on_or_after / next_due_after, which the
\* repositories import; modelled from section 4.1 of the specification.
weekday(d) == d % 7

MinOf(S) == CHOOSE x \in S : \A y \in S : x <= y

\* Mutant of first_due_on_or_after: a reference that falls on an occurrence of
\* an interval cadence is pushed to the next occurrence.
first_due_skipping_aligned(profile, reference) ==
    IF profile.cadence_type = INTERVAL
    THEN IF reference <= profile.start_date
         THEN profile.start_date
         ELSE reference + (profile.interval_days
                  - ((reference - profile.start_date) % profile.interval_days))
    ELSE reference
         + MinOf({(day - weekday(reference)) % 7 : day \in profile.weekly_days})

\* Mutant of first_due_on_or_after: the weekly delta is taken backwards.
first_due_weekly_backwards(profile, reference) ==
    IF profile.cadence_type = INTERVAL
    THEN IF reference <= profile.start_date
         THEN profile.start_date
         ELSE LET remainder == (reference - profile.start_date) % profile.interval_days
              IN  IF remainder = 0
                  THEN reference
                  ELSE reference + (profile.interval_days - remainder)
    ELSE reference
         + MinOf({(weekday(reference) - day) % 7 : day \in profile.weekly_days})

\* Mutant of next_due_after: a weekly delta of 0 is kept, so the reference
\* itself can be returned.
next_due_not_strict(profile, reference) ==
    IF profile.cadence_type = INTERVAL
    THEN reference + profile.interval_days
    ELSE reference
         + MinOf({(day - weekday(reference)) % 7 : day \in profile.weekly_days})

first_due_on_or_after(profile, reference) ==
    IF profile.cadence_type = INTERVAL
    THEN IF reference <= profile.start_date
         THEN profile.start_date
         ELSE LET remainder == (reference - profile.start_date) % profile.interval_days
              IN  IF remainder = 0
                  THEN reference
                  ELSE reference + (profile.interval_days - remainder)
    ELSE reference
         + MinOf({(day - weekday(reference)) % 7 : day \in profile.weekly_days})

next_due_after(profile, reference) ==
    IF profile.cadence_type = INTERVAL
    THEN reference + profile.interval_days
    ELSE reference
         + MinOf({ LET delta == (day - weekday(reference)) % 7
                   IN  IF delta = 0 THEN 7 ELSE delta
                   : day \in profile.weekly_days})

\* ------------------------------------------------------------- task table
Task(id, plant_id, care_profile_id, due_date) ==
    [id |-> id, plant_id |-> plant_id, care_profile_id |-> care_profile_id,
     due_date |-> due_date, status |-> PENDING, completed_at |-> None]

TaskIdsOf(ts) == {t.id : t \in ts}

TasksOfProfile(ts, pid) == {t \in ts : t.care_profile_id = pid}

PendingOfProfile(ts, pid) ==
    {t \in ts : t.care_profile_id = pid /\ t.status = PENDING}

\* TaskRepository.ensure_initial_task: return the existing pending task of the
\* profile if there is one, else insert a pending task due on due_date.
ensure_initial_task(ts, pid, profile, due_date, nid) ==
    IF PendingOfProfile(ts, pid) # {}
    THEN ts
    ELSE ts \cup {Task(nid, profile.plant_id, pid, due_date)}

\* Mutant of regenerate_pending_tasks: the pending tasks are not deleted.
regenerate_without_delete(ts, pid, profile, tdy, nid) ==
    ensure_initial_task(ts, pid, profile, first_due_on_or_after(profile, tdy), nid)

\* Mutant of regenerate_pending_tasks: every task of the profile is deleted,
\* its history included.
regenerate_dropping_history(ts, pid, profile, tdy, nid) ==
    ensure_initial_task(ts \ TasksOfProfile(ts, pid), pid, profile,
                        first_due_on_or_after(profile, tdy), nid)

\* Mutant of regenerate_pending_tasks: a new pending task is inserted on every
\* call and nothing is deleted.
regenerate_appending(ts, pid, profile, tdy, nid) ==
    ts \cup {Task(nid, profile.plant_id, pid, first_due_on_or_after(profile, tdy))}

\* TaskRepository.regenerate_pending_tasks: delete the profile's pending tasks,
\* then ensure_initial_task with first_due_on_or_after(profile, date.today()).
regenerate_pending_tasks(ts, pid, profile, tdy, nid) ==
    ensure_initial_task(ts \ PendingOfProfile(ts, pid), pid, profile,
                        first_due_on_or_after(profile, tdy), nid)

\* Mutant of delete_by_profile: only the pending tasks are deleted.
delete_pending_by_profile(ts, pid) == ts \ PendingOfProfile(ts, pid)

\* TaskRepository.delete_by_profile
delete_by_profile(ts, pid) == ts \ TasksOfProfile(ts, pid)

\* Mutant of _schedule_follow_up: the care_profile_id guard is lost and an
\* ad-hoc task is followed up as well (same plant, due a day later).
schedule_follow_up_any_task(ts, ps, task, nid) ==
    IF task.care_profile_id \notin DOMAIN ps
    THEN ts \cup {Task(nid, task.plant_id, None, task.due_date + 1)}
    ELSE LET profile == ps[task.care_profile_id]
         IN  ts \cup {Task(nid, profile.plant_id, task.care_profile_id,
                           next_due_after(profile, task.due_date))}

\* Mutant of _schedule_follow_up: the follow-up is due on or after the due
\* date of the completed task instead of strictly after it.
schedule_follow_up_on_or_after(ts, ps, task, nid) ==
    IF task.care_profile_id = None
    THEN ts
    ELSE IF task.care_profile_id \notin DOMAIN ps
    THEN ts
    ELSE LET profile == ps[task.care_profile_id]
         IN  ts \cup {Task(nid, profile.plant_id, task.care_profile_id,
                           first_due_on_or_after(profile, task.due_date))}

\* TaskRepository._schedule_follow_up: nothing for an ad-hoc task or a missing
\* profile; else insert a pending task due next_due_after(profile, task.due_date).
schedule_follow_up(ts, ps, task, nid) ==
    IF task.care_profile_id = None
    THEN ts
    ELSE IF task.care_profile_id \notin DOMAIN ps
    THEN ts
    ELSE LET profile == ps[task.care_profile_id]
         IN  ts \cup {Task(nid, profile.plant_id, task.care_profile_id,
                           next_due_after(profile, task.due_date))}

\* Mutant of updated_row: completed_at is stamped on every update of a
\* completed task.
updated_row_restamping(task, payload, now) ==
    LET status == IF payload.status = "unset" THEN task.status ELSE payload.status
        due == IF payload.due_date = Unset THEN task.due_date ELSE payload.due_date
    IN  [task EXCEPT
            !.status = status,
            !.due_date = due,
            !.completed_at = IF status = COMPLETED THEN now ELSE None]

\* TaskRepository.update, lines 70-84: the row after the payload is applied.
\* A key whose value is None is skipped, so None behaves as Unset here.
updated_row(task, payload, now) ==
    LET status == IF payload.status = "unset" THEN task.status ELSE payload.status
        due == IF payload.due_date = Unset THEN task.due_date ELSE payload.due_date
    IN  [task EXCEPT
            !.status = status,
            !.due_date = due,
            !.completed_at = IF status = COMPLETED
                             THEN (IF task.completed_at = None THEN now
                                   ELSE task.completed_at)
                             ELSE None]

\* status_changed of TaskRepository.update (line 74)
status_changed(task, payload) ==
    payload.status # "unset" /\ payload.status # task.status

\* CareProfileRepository._validate_profile ("not x" is true of None, 0 and [])
validate_profile(profile) ==
    /\ ~(profile.cadence_type = INTERVAL /\ profile.interval_days \in {None, 0})
    /\ ~(profile.cadence_type = WEEKLY /\ profile.weekly_days = {})

\* ------------------------------------------------------------- payloads
\* PATCH bodies offered: a status (or nothing but a title), or a new due date
TaskUpdatePayloads ==
    [status : {"unset", PENDING, COMPLETED}, due_date : {Unset}]
    \cup [status : {"unset"}, due_date : Days]

CareProfileCreatePayloads ==
    [plant_id : Plants,
     cadence_type : {INTERVAL},
     interval_days : 1..MaxInterval,
     weekly_days : {{}},
     start_date : {Unset} \cup Days]
    \cup
    [plant_id : Plants,
     cadence_type : {WEEKLY},
     interval_days : {None},
     weekly_days : WeeklyChoices,
     start_date : {Unset} \cup Days]

NoUpdate ==
    [title |-> Unset, cadence_type |-> "unset", interval_days |-> Unset,
     weekly_days |-> {Unset}, start_date |-> Unset]

\* PATCH bodies offered: one key, or a cadence_type with its own field
CareProfileUpdatePayloads ==
    {[NoUpdate EXCEPT !.title = 1]}
    \cup {[NoUpdate EXCEPT !.cadence_type = c] : c \in CareCadenceType}
    \cup {[NoUpdate EXCEPT !.interval_days = n] : n \in {None} \cup (1..MaxInterval)}
    \cup {[NoUpdate EXCEPT !.weekly_days = w] : w \in WeeklyChoices}
    \cup {[NoUpdate EXCEPT !.start_date = d] : d \in Days}
    \cup {[NoUpdate EXCEPT !.cadence_type = INTERVAL, !.interval_days = n] :
             n \in 1..MaxInterval}
    \cup {[NoUpdate EXCEPT !.cadence_type = WEEKLY, !.weekly_days = w] :
             w \in WeeklyChoices}

ScheduleKeys(payload) ==
    \/ payload.cadence_type # "unset"
    \/ payload.interval_days # Unset
    \/ payload.weekly_days # {Unset}
    \/ payload.start_date # Unset

\* ------------------------------------------------------------ request log
\* The kind of the last request and, for a completion, a schedule edit and a
\* profile deletion, its target and what it found and removed.
Last(op, task, profile) ==
    [op |-> op, task |-> task, profile |-> profile,
     completed |-> FALSE, schedule_changed |-> FALSE,
     removed |-> {}, other_pending |-> FALSE, resync |-> FALSE]

Init ==
    /\ profiles = <<>>
    /\ tasks = {}
    /\ today = 0
    /\ nextTaskId = 1
    /\ nextProfileId = 1
    /\ last = Last("init", None, None)
    /\ reqs = <<>>
    /\ calc = <<>>
    /\ water = <<>>
    /\ cat = <<>>
    /\ village = <<>>

\* ---------------------------------------------------------------- actions
\* POST /api/v1/tasks/ -> TaskRepository.create (plant and profile must exist)
TaskCreate(plant_id, care_profile_id, due_date) ==
    /\ nextTaskId <= MaxTaskId
    /\ care_profile_id # None => care_profile_id \in DOMAIN profiles
    /\ tasks' = tasks \cup {Task(nextTaskId, plant_id, care_profile_id, due_date)}
    /\ nextTaskId' = nextTaskId + 1
    /\ last' = Last("task_create", None, None)
    /\ UNCHANGED <<profiles, today, nextProfileId, aux>>

\* PATCH /api/v1/tasks/{id} -> TaskRepository.update
TaskUpdate(task, payload) ==
    LET row == updated_row(task, payload, today)
        completing == status_changed(task, payload) /\ row.status = COMPLETED
        stored == (tasks \ {task}) \cup {row}
        after == IF completing
                 THEN schedule_follow_up(stored, profiles, row, nextTaskId)
                 ELSE stored
    IN  /\ nextTaskId \in TaskIdsOf(after) => nextTaskId <= MaxTaskId
        /\ tasks' = after
        /\ nextTaskId' = IF nextTaskId \in TaskIdsOf(after)
                         THEN nextTaskId + 1 ELSE nextTaskId
        /\ last' = IF completing
                   THEN [Last("task_update", task.id, task.care_profile_id)
                         EXCEPT !.completed = TRUE,
                                !.other_pending =
                                    /\ task.care_profile_id # None
                                    /\ PendingOfProfile(tasks \ {task},
                                           task.care_profile_id) # {}]
                   ELSE Last("task_update", None, None)
        /\ UNCHANGED <<profiles, today, nextProfileId, aux>>

\* DELETE /api/v1/tasks/{id} -> TaskRepository.delete
TaskDelete(task) ==
    /\ tasks' = tasks \ {task}
    /\ last' = Last("task_delete", None, None)
    /\ UNCHANGED <<profiles, today, nextTaskId, nextProfileId, aux>>

\* Mutant of initial_due: the first task is computed from today.
initial_due_from_today(profile, tdy) == first_due_on_or_after(profile, tdy)

\* CareProfileRepository.create, line 74: the due date of the initial task
initial_due(profile, tdy) == first_due_on_or_after(profile, profile.start_date)

\* POST /api/v1/care-profiles/ -> CareProfileRepository.create
CareProfileCreate(payload) ==
    LET profile == [plant_id |-> payload.plant_id,
                    cadence_type |-> payload.cadence_type,
                    interval_days |-> payload.interval_days,
                    weekly_days |-> payload.weekly_days,
                    start_date |-> IF payload.start_date = Unset
                                   THEN today ELSE payload.start_date]
        pid == nextProfileId
    IN  /\ nextProfileId <= MaxProfileId
        /\ nextTaskId <= MaxTaskId
        /\ validate_profile(profile)
        /\ profiles' = profiles @@ (pid :> profile)
        /\ nextProfileId' = nextProfileId + 1
        /\ tasks' = ensure_initial_task(tasks, pid, profile,
                                        initial_due(profile, today), nextTaskId)
        /\ nextTaskId' = IF nextTaskId \in TaskIdsOf(tasks')
                         THEN nextTaskId + 1 ELSE nextTaskId
        /\ last' = Last("profile_create", None, pid)
        /\ UNCHANGED <<today, aux>>

\* CareProfileRepository.update, lines 80-88: the row after the payload
patched_profile(profile, payload) ==
    [profile EXCEPT
        !.cadence_type = IF payload.cadence_type = "unset"
                         THEN @ ELSE payload.cadence_type,
        !.interval_days = IF payload.interval_days = Unset
                          THEN @ ELSE payload.interval_days,
        !.weekly_days = IF payload.weekly_days = {Unset}
                        THEN @ ELSE payload.weekly_days,
        !.start_date = IF payload.start_date = Unset
                       THEN @ ELSE payload.start_date]

SameSchedule(a, b) ==
    /\ a.cadence_type = b.cadence_type
    /\ a.interval_days = b.interval_days
    /\ a.weekly_days = b.weekly_days
    /\ a.start_date = b.start_date

\* Mutant of CareProfileUpdate: the pending tasks are regenerated on every
\* update, whatever keys the payload has.
CareProfileUpdateAlwaysRegenerating(pid, payload) ==
    LET profile == patched_profile(profiles[pid], payload)
        schedule_changed == ScheduleKeys(payload)
        after == regenerate_pending_tasks(tasks, pid, profile, today, nextTaskId)
    IN  /\ validate_profile(profile)
        /\ nextTaskId \in TaskIdsOf(after) => nextTaskId <= MaxTaskId
        /\ profiles' = [profiles EXCEPT ![pid] = profile]
        /\ tasks' = after
        /\ nextTaskId' = IF nextTaskId \in TaskIdsOf(after)
                         THEN nextTaskId + 1 ELSE nextTaskId
        /\ last' = IF schedule_changed
                   THEN [Last("profile_update", None, pid) EXCEPT
                            !.schedule_changed = TRUE,
                            !.removed = {t.status : t \in tasks \ after},
                            !.resync = /\ last.op = "profile_update"
                                       /\ last.schedule_changed
                                       /\ last.profile = pid
                                       /\ SameSchedule(profile, profiles[pid])]
                   ELSE Last("profile_update", None, None)
        /\ UNCHANGED <<today, nextProfileId, aux>>

\* PATCH /api/v1/care-profiles/{id} -> CareProfileRepository.update
CareProfileUpdate(pid, payload) ==
    LET profile == patched_profile(profiles[pid], payload)
        schedule_changed == ScheduleKeys(payload)
        after == IF schedule_changed
                 THEN regenerate_pending_tasks(tasks, pid, profile, today,
                                               nextTaskId)
                 ELSE tasks
    IN  /\ validate_profile(profile)
        /\ nextTaskId \in TaskIdsOf(after) => nextTaskId <= MaxTaskId
        /\ profiles' = [profiles EXCEPT ![pid] = profile]
        /\ tasks' = after
        /\ nextTaskId' = IF nextTaskId \in TaskIdsOf(after)
                         THEN nextTaskId + 1 ELSE nextTaskId
        /\ last' = IF schedule_changed
                   THEN [Last("profile_update", None, pid) EXCEPT
                            !.schedule_changed = TRUE,
                            !.removed = {t.status : t \in tasks \ after},
                            !.resync = /\ last.op = "profile_update"
                                       /\ last.schedule_changed
                                       /\ last.profile = pid
                                       /\ SameSchedule(profile, profiles[pid])]
                   ELSE Last("profile_update", None, None)
        /\ UNCHANGED <<today, nextProfileId, aux>>

\* DELETE /api/v1/care-profiles/{id} -> CareProfileRepository.delete
CareProfileDelete(pid) ==
    /\ tasks' = delete_by_profile(tasks, pid)
    /\ profiles' = [q \in DOMAIN profiles \ {pid} |-> profiles[q]]
    /\ last' = [Last("profile_delete", None, pid) EXCEPT
                   !.removed = {t.status : t \in tasks \ tasks'}]
    /\ UNCHANGED <<today, nextTaskId, nextProfileId, aux>>

\* Midnight (UTC): date.today() advances.
Tick ==
    /\ today < MaxDay
    /\ today' = today + 1
    /\ last' = Last("tick", None, None)
    /\ UNCHANGED <<profiles, tasks, nextTaskId, nextProfileId, aux>>

Next ==
    \/ \E plant_id \in Plants, care_profile_id \in {None} \cup ProfileIds,
          due_date \in Days : TaskCreate(plant_id, care_profile_id, due_date)
    \/ \E task \in tasks, payload \in TaskUpdatePayloads :
          TaskUpdate(task, payload)
    \/ \E task \in tasks : TaskDelete(task)
    \/ \E payload \in CareProfileCreatePayloads : CareProfileCreate(payload)
    \/ \E pid \in DOMAIN profiles, payload \in CareProfileUpdatePayloads :
          CareProfileUpdate(pid, payload)
    \/ \E pid \in DOMAIN profiles : CareProfileDelete(pid)
    \/ Tick

Spec == Init /\ [][Next]_vars

\* ------------------------------------------------------------------ claims
Completion == last.op = "task_update" /\ last.completed
CompletionStep == last'.op = "task_update" /\ last'.completed

\* C1: at every moment there is at most one pending task per
\* (plant, care profile) pair.
AtMostOnePendingPerPair ==
    \A t1 \in tasks, t2 \in tasks :
        ( /\ t1.status = PENDING /\ t2.status = PENDING
          /\ t1.care_profile_id # None
          /\ t1.care_profile_id = t2.care_profile_id
          /\ t1.plant_id = t2.plant_id ) => t1 = t2

\* C2: right after a pending profile-linked task is completed, exactly one
\* pending task exists for its profile, due next_due_after(profile, the date
\* of the completion).
FollowUpFromCompletionDate ==
    (Completion /\ last.profile # None) =>
        \E t \in tasks :
            /\ PendingOfProfile(tasks, last.profile) = {t}
            /\ t.due_date = next_due_after(profiles[last.profile], today)

\* C3: a completion that finds another pending task of the same profile
\* creates no task: the profile has as many tasks after it as before.
FollowUpReusesExistingPending ==
    [][(CompletionStep /\ last'.other_pending) =>
          /\ TaskIdsOf(tasks') = TaskIdsOf(tasks)
          /\ Cardinality(TasksOfProfile(tasks', last'.profile))
               = Cardinality(TasksOfProfile(tasks, last'.profile))]_vars

\* C4: completing an ad-hoc task (care_profile_id None) creates no task and
\* leaves every other task as it was.
AdHocCompletionChangesNothingElse ==
    [][(CompletionStep /\ last'.profile = None) =>
          {u \in tasks' : u.id # last'.task} = {t \in tasks : t.id # last'.task}]_vars

AdHocCompletionWitness ==
    /\ Completion
    /\ last.profile = None
    /\ \E t \in tasks : t.id = last.task /\ t.status = COMPLETED
    /\ \E u \in tasks : u.id # last.task /\ u.status = PENDING

\* C5: completed is terminal: a task that is completed stays completed, with
\* the completed_at it has, for as long as it exists.
CompletedIsTerminal ==
    [][\A t \in tasks : t.status = COMPLETED =>
          \A u \in tasks' : u.id = t.id =>
              u.status = COMPLETED /\ u.completed_at = t.completed_at]_vars

\* C6: right after a care profile is created, exactly one task is linked to
\* it: a pending task due first_due_on_or_after(profile, profile.start_date).
InitialTaskOnProfileCreate ==
    last.op = "profile_create" =>
        \E t \in tasks :
            /\ TasksOfProfile(tasks, last.profile) = {t}
            /\ t.status = PENDING
            /\ t.plant_id = profiles[last.profile].plant_id
            /\ t.due_date = first_due_on_or_after(
                                profiles[last.profile],
                                profiles[last.profile].start_date)

BackdatedProfileCreated ==
    /\ last.op = "profile_create"
    /\ profiles[last.profile].start_date < today
    /\ PendingOfProfile(tasks, last.profile) # {}

ScheduleEdit == last.op = "profile_update" /\ last.schedule_changed
ScheduleEditStep == last'.op = "profile_update" /\ last'.schedule_changed

\* C7: a schedule edit deletes every pending task the profile had and leaves
\* exactly one pending task, due first_due_on_or_after(updated profile, today).
ScheduleEditReplacesPending ==
    [][ScheduleEditStep =>
          /\ \A t \in PendingOfProfile(tasks, last'.profile) :
                 t.id \notin TaskIdsOf(tasks')
          /\ \E u \in tasks' :
                 /\ PendingOfProfile(tasks', last'.profile) = {u}
                 /\ u.due_date = first_due_on_or_after(
                                     profiles'[last'.profile], today')]_vars

StalePendingReplaced ==
    /\ ScheduleEdit
    /\ last.removed = {PENDING}
    /\ \E u \in tasks : PendingOfProfile(tasks, last.profile) = {u}

\* C8: a schedule edit changes nothing but the pending tasks of the edited
\* profile: its completed tasks and all tasks of other profiles stay as they are.
NotPendingOf(ts, pid) ==
    {t \in ts : ~(t.care_profile_id = pid /\ t.status = PENDING)}

ScheduleEditKeepsHistory ==
    [][ScheduleEditStep =>
          NotPendingOf(tasks', last'.profile) = NotPendingOf(tasks, last'.profile)]_vars

HistoryPresentAtScheduleEdit ==
    /\ ScheduleEdit
    /\ last.removed = {PENDING}
    /\ \E t \in tasks : t.care_profile_id = last.profile /\ t.status = COMPLETED

\* C9: deleting a care profile deletes exactly the tasks that reference it,
\* pending and completed, and no task ever references a profile that is gone.
ProfileDeleteRemovesItsTasks ==
    [][/\ \A u \in tasks' : u.care_profile_id # None =>
              u.care_profile_id \in DOMAIN profiles'
       /\ last'.op = "profile_delete" =>
              /\ last'.profile \notin DOMAIN profiles'
              /\ tasks' = {t \in tasks : t.care_profile_id # last'.profile}]_vars

ProfileDeletedWithHistory ==
    /\ last.op = "profile_delete"
    /\ last.removed = {PENDING, COMPLETED}
    /\ tasks # {}

\* C10: a second synchronisation of the same profile, with the same schedule
\* and the same today, right after the first leaves the same pending task:
\* one pending task, same plant, same due date.
PendingView(ts, pid) ==
    {[plant_id |-> t.plant_id, due_date |-> t.due_date] :
        t \in PendingOfProfile(ts, pid)}

Requests == {1, 2}

Idle ==
    [kind |-> "idle", pc |-> "idle", pid |-> None, payload |-> NoUpdate,
     loaded |-> <<>>, profile |-> <<>>, stored |-> <<>>, found |-> {},
     due |-> None, row |-> <<>>, completing |-> FALSE, pre |-> <<>>]

AllIdle == \A r \in Requests : reqs[r].pc = "idle"

InFlight(r) == reqs[r].pc \notin {"idle", "done", "crashed"}

\* what is persisted when request r starts
Snapshot == [profiles |-> profiles, tasks |-> tasks, nextTaskId |-> nextTaskId]

InitSteps ==
    /\ profiles = <<>>
    /\ tasks = {}
    /\ today = 0
    /\ nextTaskId = 1
    /\ nextProfileId = 1
    /\ last = Last("init", None, None)
    /\ reqs = [r \in Requests |-> Idle]
    /\ calc = <<>>
    /\ water = <<>>
    /\ cat = <<>>
    /\ village = <<>>

\* Requests served before the ones followed statement by statement: one
\* profile is created, and the requests followed are about that profile.
SetupProfileCreate(payload) ==
    /\ AllIdle
    /\ DOMAIN profiles = {}
    /\ CareProfileCreate(payload)

SetupTick == AllIdle /\ Tick

\* what the steps of a request leave alone
StepFrame == UNCHANGED <<today, nextProfileId, last, calc, water, cat, village>>

\* api.update_care_profile line 81 and CareProfileRepository.update lines
\* 80-89: the session loads the row, applies the payload to its object and
\* validates it (a 422 ends the request before any write).
BeginProfileUpdate(r, pid, payload) ==
    /\ reqs[r].pc = "idle"
    /\ pid \in DOMAIN profiles
    /\ validate_profile(patched_profile(profiles[pid], payload))
    /\ reqs' = [reqs EXCEPT ![r] =
                   [Idle EXCEPT !.kind = "profile_update",
                                !.pc = "commit_profile",
                                !.pid = pid,
                                !.payload = payload,
                                !.loaded = profiles[pid],
                                !.profile = patched_profile(profiles[pid], payload),
                                !.pre = Snapshot]]
    /\ UNCHANGED <<profiles, tasks, nextTaskId>>
    /\ StepFrame

\* The UPDATE flushed by the commit sets the columns whose value differs from
\* the loaded one; the other columns keep what is stored.
flushed_profile(stored, loaded, profile) ==
    [stored EXCEPT
        !.cadence_type = IF profile.cadence_type # loaded.cadence_type
                         THEN profile.cadence_type ELSE @,
        !.interval_days = IF profile.interval_days # loaded.interval_days
                          THEN profile.interval_days ELSE @,
        !.weekly_days = IF profile.weekly_days # loaded.weekly_days
                        THEN profile.weekly_days ELSE @,
        !.start_date = IF profile.start_date # loaded.start_date
                       THEN profile.start_date ELSE @]

\* CareProfileRepository.update lines 91-96: commit, refresh, and go on to
\* regenerate_pending_tasks only if a schedule key was in the payload.
CommitProfile(r) ==
    LET req == reqs[r]
        row == flushed_profile(profiles[req.pid], req.loaded, req.profile)
    IN  /\ req.pc = "commit_profile"
        /\ profiles' = [profiles EXCEPT ![req.pid] = row]
        /\ reqs' = [reqs EXCEPT ![r] =
                       [req EXCEPT !.profile = row, !.stored = row,
                                   !.pc = IF ScheduleKeys(req.payload)
                                          THEN "select_pending" ELSE "done"]]
        /\ UNCHANGED <<tasks, nextTaskId>>
        /\ StepFrame

\* TaskRepository.regenerate_pending_tasks lines 133-137: the pending tasks of
\* the profile are selected and marked for deletion in the session.
SelectPending(r) ==
    LET req == reqs[r]
    IN  /\ req.pc = "select_pending"
        /\ reqs' = [reqs EXCEPT ![r] =
                       [req EXCEPT !.found = TaskIdsOf(PendingOfProfile(tasks, req.pid)),
                                   !.pc = "delete_pending"]]
        /\ UNCHANGED <<profiles, tasks, nextTaskId>>
        /\ StepFrame

\* regenerate_pending_tasks line 138: the deletions are committed (a row that
\* is gone already is not an error for a DELETE).
DeletePending(r) ==
    LET req == reqs[r]
    IN  /\ req.pc = "delete_pending"
        /\ tasks' = {t \in tasks : t.id \notin req.found}
        /\ reqs' = [reqs EXCEPT ![r] = [req EXCEPT !.pc = "compute_due"]]
        /\ UNCHANGED <<profiles, nextTaskId>>
        /\ StepFrame

\* regenerate_pending_tasks line 141: the commit expired the profile object,
\* so it is loaded again to compute first_due_on_or_after(profile, today).
ComputeDue(r) ==
    LET req == reqs[r]
    IN  /\ req.pc = "compute_due"
        /\ reqs' = [reqs EXCEPT ![r] =
                       [req EXCEPT !.profile = profiles[req.pid],
                                   !.due = first_due_on_or_after(profiles[req.pid], today),
                                   !.pc = "select_existing"]]
        /\ UNCHANGED <<profiles, tasks, nextTaskId>>
        /\ StepFrame

\* TaskRepository.ensure_initial_task lines 104-119: look for a pending task
\* of the profile and return it if there is one.
SelectExisting(r) ==
    LET req == reqs[r]
    IN  /\ req.pc = "select_existing"
        /\ reqs' = [reqs EXCEPT ![r] =
                       [req EXCEPT !.pc = IF PendingOfProfile(tasks, req.pid) # {}
                                          THEN "done" ELSE "insert_task"]]
        /\ UNCHANGED <<profiles, tasks, nextTaskId>>
        /\ StepFrame

\* ensure_initial_task lines 120-128: insert the pending task and commit.
InsertTask(r) ==
    LET req == reqs[r]
    IN  /\ req.pc = "insert_task"
        /\ nextTaskId <= MaxTaskId
        /\ tasks' = tasks \cup {Task(nextTaskId, req.profile.plant_id, req.pid, req.due)}
        /\ nextTaskId' = nextTaskId + 1
        /\ reqs' = [reqs EXCEPT ![r] = [req EXCEPT !.pc = "done"]]
        /\ UNCHANGED profiles
        /\ StepFrame

\* api.update_task line 88 and TaskRepository.update lines 70-85: the session
\* loads the task and applies the payload to its object.
BeginTaskUpdate(r, task, payload) ==
    /\ reqs[r].pc = "idle"
    /\ task \in tasks
    /\ reqs' = [reqs EXCEPT ![r] =
                   [Idle EXCEPT !.kind = "task_update",
                                !.pc = "commit_task",
                                !.row = updated_row(task, payload, today),
                                !.completing =
                                    /\ status_changed(task, payload)
                                    /\ updated_row(task, payload, today).status = COMPLETED,
                                !.pre = Snapshot]]
    /\ UNCHANGED <<profiles, tasks, nextTaskId>>
    /\ StepFrame

\* TaskRepository.update lines 86-90: commit the row; a follow-up is scheduled
\* only if the status changed to completed.
CommitTask(r) ==
    LET req == reqs[r]
    IN  /\ req.pc = "commit_task"
        /\ tasks' = {t \in tasks : t.id # req.row.id} \cup {req.row}
        /\ reqs' = [reqs EXCEPT ![r] =
                       [req EXCEPT !.pc = IF req.completing
                                          THEN "follow_up" ELSE "done"]]
        /\ UNCHANGED <<profiles, nextTaskId>>
        /\ StepFrame

\* TaskRepository._schedule_follow_up lines 144-160, committed at line 160.
FollowUp(r) ==
    LET req == reqs[r]
        after == schedule_follow_up(tasks, profiles, req.row, nextTaskId)
    IN  /\ req.pc = "follow_up"
        /\ nextTaskId \in TaskIdsOf(after) => nextTaskId <= MaxTaskId
        /\ tasks' = after
        /\ nextTaskId' = IF nextTaskId \in TaskIdsOf(after)
                         THEN nextTaskId + 1 ELSE nextTaskId
        /\ reqs' = [reqs EXCEPT ![r] = [req EXCEPT !.pc = "done"]]
        /\ UNCHANGED profiles
        /\ StepFrame

\* The process dies while request r is being served: what was committed stays,
\* what the session had not committed is lost.
Crash(r) ==
    /\ InFlight(r)
    /\ reqs' = [reqs EXCEPT ![r] = [reqs[r] EXCEPT !.pc = "crashed"]]
    /\ UNCHANGED <<profiles, tasks, nextTaskId>>
    /\ StepFrame

\* One request at a time, and the process may die at any statement of it.
NextCrash ==
    \/ \E payload \in CareProfileCreatePayloads : SetupProfileCreate(payload)
    \/ SetupTick
    \/ \E pid \in DOMAIN profiles, payload \in CareProfileUpdatePayloads :
          BeginProfileUpdate(1, pid, payload)
    \/ CommitProfile(1)
    \/ SelectPending(1)
    \/ DeletePending(1)
    \/ ComputeDue(1)
    \/ SelectExisting(1)
    \/ InsertTask(1)
    \/ \E task \in tasks, payload \in TaskUpdatePayloads :
          BeginTaskUpdate(1, task, payload)
    \/ CommitTask(1)
    \/ FollowUp(1)
    \/ Crash(1)

SpecCrash == InitSteps /\ [][NextCrash]_vars

\* what request r leaves persisted when it is served as a whole
FullProfiles(req) ==
    IF req.kind = "profile_update"
    THEN [req.pre.profiles EXCEPT ![req.pid] =
             patched_profile(req.pre.profiles[req.pid], req.payload)]
    ELSE req.pre.profiles

FullTasks(req) ==
    IF req.kind = "profile_update"
    THEN IF ScheduleKeys(req.payload)
         THEN regenerate_pending_tasks(req.pre.tasks, req.pid,
                  patched_profile(req.pre.profiles[req.pid], req.payload),
                  today, req.pre.nextTaskId)
         ELSE req.pre.tasks
    ELSE LET stored == {t \in req.pre.tasks : t.id # req.row.id} \cup {req.row}
         IN  IF req.completing
             THEN schedule_follow_up(stored, req.pre.profiles, req.row,
                                     req.pre.nextTaskId)
             ELSE stored

OnePendingPerProfile(ts) ==
    \A t1 \in ts, t2 \in ts :
        ( /\ t1.status = PENDING /\ t2.status = PENDING
          /\ t1.care_profile_id # None
          /\ t1.care_profile_id = t2.care_profile_id ) => t1 = t2

\* C11: the writes of one request are committed together: after a crash
\* inside a schedule edit or a task completion the persisted state holds
\* either none or all of the writes of that request, and never two pending
\* tasks for one profile that had at most one.
RequestWritesAreAtomic ==
    \A r \in Requests :
        reqs[r].pc = "crashed" =>
            /\ \/ (profiles = reqs[r].pre.profiles /\ tasks = reqs[r].pre.tasks)
               \/ (profiles = FullProfiles(reqs[r]) /\ tasks = FullTasks(reqs[r]))
            /\ OnePendingPerProfile(reqs[r].pre.tasks) => OnePendingPerProfile(tasks)

\* ------------------------------------------------- two schedule edits at once
\* Two PATCH requests on care profiles, each in its own session, their
\* statements interleaved in any order.
NextConc ==
    \/ \E payload \in CareProfileCreatePayloads : SetupProfileCreate(payload)
    \/ SetupTick
    \/ \E r \in Requests, pid \in DOMAIN profiles,
          payload \in CareProfileUpdatePayloads :
          BeginProfileUpdate(r, pid, payload)
    \/ \E r \in Requests : CommitProfile(r)
    \/ \E r \in Requests : SelectPending(r)
    \/ \E r \in Requests : DeletePending(r)
    \/ \E r \in Requests : ComputeDue(r)
    \/ \E r \in Requests : SelectExisting(r)
    \/ \E r \in Requests : InsertTask(r)

SpecConc == InitSteps /\ [][NextConc]_vars

\* both requests were schedule edits of one profile and both have returned
BothEditsDone ==
    /\ \A r \in Requests :
          /\ reqs[r].kind = "profile_update"
          /\ reqs[r].pc = "done"
          /\ ScheduleKeys(reqs[r].payload)
    /\ reqs[1].pid = reqs[2].pid

\* C12: two concurrent schedule edits of one profile are last-write-wins: in
\* every interleaving the final profile is the row one of the two edits
\* stored, and exactly one pending task exists for the profile, due
\* first_due_on_or_after of the surviving configuration.
ConcurrentEditsLastWriteWins ==
    BothEditsDone =>
        LET pid == reqs[1].pid
        IN  /\ \E r \in Requests : profiles[pid] = reqs[r].stored
            /\ \E t \in PendingOfProfile(tasks, pid) :
                  /\ PendingOfProfile(tasks, pid) = {t}
                  /\ t.due_date = first_due_on_or_after(profiles[pid], today)

\* ======================================================== cadence calculator
\* One call of first_due_on_or_after or next_due_after on a profile and a
\* reference date; calc holds the arguments and the date returned.
MaxCalcDay == 14
MaxCalcInterval == 5

CalcDays == 0..MaxCalcDay

CalcProfiles ==
    [cadence_type : {INTERVAL}, interval_days : 1..MaxCalcInterval,
     weekly_days : {{}}, start_date : CalcDays]
    \cup
    [cadence_type : {WEEKLY}, interval_days : {None},
     weekly_days : (SUBSET (0..6)) \ {{}}, start_date : {0, MaxCalcDay}]

InitCalc ==
    /\ profiles = <<>>
    /\ tasks = {}
    /\ today = 0
    /\ nextTaskId = 1
    /\ nextProfileId = 1
    /\ last = Last("init", None, None)
    /\ reqs = <<>>
    /\ water = <<>>
    /\ cat = <<>>
    /\ village = <<>>
    /\ calc \in [fn : {"none"}, profile : CalcProfiles, reference : CalcDays,
                 result : {None}]

CalcFrame ==
    UNCHANGED <<profiles, tasks, today, nextTaskId, nextProfileId, last, reqs, water, cat, village>>

CallFirstDue ==
    /\ calc.fn = "none"
    /\ calc' = [calc EXCEPT
                   !.fn = "first_due_on_or_after",
                   !.result = first_due_on_or_after(calc.profile, calc.reference)]
    /\ CalcFrame

CallNextDue ==
    /\ calc.fn = "none"
    /\ calc' = [calc EXCEPT
                   !.fn = "next_due_after",
                   !.result = next_due_after(calc.profile, calc.reference)]
    /\ CalcFrame

NextCalc == CallFirstDue \/ CallNextDue

SpecCalc == InitCalc /\ [][NextCalc]_vars

\* C13: for an interval profile, d = first_due_on_or_after(profile, r) has
\* d >= r and (d - start_date) mod interval_days = 0; d = start_date when
\* r <= start_date, and d - r < interval_days otherwise.
IntervalFirstDueIsNextOccurrence ==
    (calc.fn = "first_due_on_or_after" /\ calc.profile.cadence_type = INTERVAL) =>
        LET d == calc.result
            r == calc.reference
            start == calc.profile.start_date
            n == calc.profile.interval_days
        IN  /\ d >= r
            /\ (d - start) % n = 0
            /\ r <= start => d = start
            /\ r > start => d - r < n

\* an interval call whose reference falls strictly between two occurrences
IntervalFirstDueBetweenOccurrences ==
    /\ calc.fn = "first_due_on_or_after"
    /\ calc.profile.cadence_type = INTERVAL
    /\ calc.reference > calc.profile.start_date
    /\ calc.result > calc.reference

\* C14: for a weekly profile, d = first_due_on_or_after(profile, r) has
\* weekday(d) in weekly_days and 0 <= d - r <= 6, no date in [r, d) has a
\* weekday in weekly_days, and d = r when weekday(r) is in weekly_days.
WeeklyFirstDueIsNextListedWeekday ==
    (calc.fn = "first_due_on_or_after" /\ calc.profile.cadence_type = WEEKLY) =>
        LET d == calc.result
            r == calc.reference
            days == calc.profile.weekly_days
        IN  /\ weekday(d) \in days
            /\ 0 <= d - r
            /\ d - r <= 6
            /\ \A x \in r..(d - 1) : weekday(x) \notin days
            /\ weekday(r) \in days => d = r

\* a weekly call that has to wrap into the next week
WeeklyFirstDueWrapsWeek ==
    /\ calc.fn = "first_due_on_or_after"
    /\ calc.profile.cadence_type = WEEKLY
    /\ weekday(calc.result) < weekday(calc.reference)
    /\ calc.result - calc.reference = 6

\* C15: next_due_after(profile, r) is strictly after r: r + interval_days for
\* an interval profile, and for a weekly profile the first date after r whose
\* weekday is in weekly_days, one to seven days later.
NextDueIsStrictlyAfter ==
    calc.fn = "next_due_after" =>
        LET d == calc.result
            r == calc.reference
            days == calc.profile.weekly_days
        IN  /\ d > r
            /\ calc.profile.cadence_type = INTERVAL =>
                  d = r + calc.profile.interval_days
            /\ calc.profile.cadence_type = WEEKLY =>
                  /\ 1 <= d - r
                  /\ d - r <= 7
                  /\ weekday(d) \in days
                  /\ \A x \in (r + 1)..(d - 1) : weekday(x) \notin days

\* a weekly call on the only listed weekday: the next one is a week later
NextDueAWeekLater ==
    /\ calc.fn = "next_due_after"
    /\ calc.profile.cadence_type = WEEKLY
    /\ weekday(calc.reference) \in calc.profile.weekly_days
    /\ calc.result = calc.reference + 7

\* ================================================ watering history predictor
\* app._predict_next_watering_date.  A date is the number of days since
\* 0001-01-01 (a Monday), so date.toordinal() is that number plus one.  The
\* source computes in floating point; here the regression is computed exactly
\* as a fraction, and where the exact value lies half way between two integers,
\* where round() follows the rounding errors of the float computation, both
\* neighbours are possible outcomes.
MaxWaterDay == 7
MaxHistoryLen == 5

WaterDays == 0..MaxWaterDay

toordinal(value) == value + 1

fromordinal(n) == n - 1

RangeOf(seq) == {seq[i] : i \in DOMAIN seq}

RECURSIVE SortedSeq(_)
\* sorted(S) of a set of dates
SortedSeq(S) ==
    IF S = {} THEN <<>>
    ELSE LET m == MinOf(S) IN <<m>> \o SortedSeq(S \ {m})

RECURSIVE SumSeq(_)
SumSeq(seq) == IF seq = <<>> THEN 0 ELSE Head(seq) + SumSeq(Tail(seq))

MaxOf2(a, b) == IF a >= b THEN a ELSE b

\* line 516: sorted({value for value in history if isinstance(value, date)})
unique_sorted(history) == SortedSeq(RangeOf(history))

\* line 525 times count^2: sum((index - mean_index) ** 2)
denominator_scaled(count) ==
    LET indices == [i \in 1..count |-> i - 1]
    IN  SumSeq([i \in 1..count |->
                   (count * indices[i] - SumSeq(indices))
                 * (count * indices[i] - SumSeq(indices))])

\* lines 531-534 times count^2:
\* sum((index - mean_index) * (ordinal - mean_ordinal))
numerator_scaled(ordinals) ==
    LET count == Len(ordinals)
        indices == [i \in 1..count |-> i - 1]
    IN  SumSeq([i \in 1..count |->
                   (count * indices[i] - SumSeq(indices))
                 * (count * ordinals[i] - SumSeq(ordinals))])

\* lines 535-537: predicted_ordinal = slope * at + intercept, with
\* slope = numerator / denominator and
\* intercept = mean_ordinal - slope * mean_index, as the fraction <<p, q>>
predicted_ordinal(ordinals, at) ==
    LET count == Len(ordinals)
        indices == [i \in 1..count |-> i - 1]
        num == numerator_scaled(ordinals)
        den == denominator_scaled(count)
    IN  << num * at * count + SumSeq(ordinals) * den - num * SumSeq(indices),
           den * count >>

\* line 538: round(p / q) for q > 0, to the nearest integer; a value half way
\* is open to both neighbours.
round(p, q) ==
    LET floor == p \div q
        rest == p % q
    IN  IF 2 * rest < q THEN {floor}
        ELSE IF 2 * rest > q THEN {floor + 1}
        ELSE {floor, floor + 1}

\* Mutant of predict_next_watering_date: the result is not clamped to the day
\* after the last watering.
predict_without_clamp(history) ==
    LET dates == unique_sorted(history)
        count == Len(dates)
        ordinals == [i \in 1..count |-> toordinal(dates[i])]
        predicted == predicted_ordinal(ordinals, count)
    IN  IF count < 2 THEN {None}
        ELSE {fromordinal(rounded) : rounded \in round(predicted[1], predicted[2])}

\* Mutant of predict_next_watering_date: the history is counted before the
\* duplicates are dropped.
predict_counting_duplicates(history) ==
    LET dates == unique_sorted(history)
        count == Len(dates)
        ordinals == [i \in 1..count |-> toordinal(dates[i])]
        predicted == predicted_ordinal(ordinals, count)
    IN  IF Len(history) < 2 THEN {None}
        ELSE IF count < 2 THEN {fromordinal(ordinals[count] + 1)}
        ELSE {fromordinal(MaxOf2(ordinals[count] + 1, rounded)) :
                 rounded \in round(predicted[1], predicted[2])}

\* Mutant of predict_next_watering_date: the line is evaluated at the index of
\* the last watering instead of the next one.
predict_at_last_index(history) ==
    LET dates == unique_sorted(history)
        count == Len(dates)
        ordinals == [i \in 1..count |-> toordinal(dates[i])]
        predicted == predicted_ordinal(ordinals, count - 1)
    IN  IF count < 2 THEN {None}
        ELSE {fromordinal(MaxOf2(ordinals[count] + 1, rounded)) :
                 rounded \in round(predicted[1], predicted[2])}

\* app._predict_next_watering_date, lines 515-541: the dates it can return
predict_next_watering_date(history) ==
    LET dates == unique_sorted(history)
        count == Len(dates)
        ordinals == [i \in 1..count |-> toordinal(dates[i])]
        predicted == predicted_ordinal(ordinals, count)
    IN  IF count < 2 THEN {None}
        ELSE IF denominator_scaled(count) = 0
        THEN {fromordinal(ordinals[count]
                 + MaxOf2(1, ordinals[count] - ordinals[count - 1]))}
        ELSE {fromordinal(MaxOf2(ordinals[count] + 1, rounded)) :
                 rounded \in round(predicted[1], predicted[2])}

Histories == UNION {[1..n -> WaterDays] : n \in 0..MaxHistoryLen}

InitPredict ==
    /\ profiles = <<>>
    /\ tasks = {}
    /\ today = 0
    /\ nextTaskId = 1
    /\ nextProfileId = 1
    /\ last = Last("init", None, None)
    /\ reqs = <<>>
    /\ water = <<>>
    /\ cat = <<>>
    /\ village = <<>>
    /\ calc \in [fn : {"none"}, history : Histories, result : {None}]

\* app._serialize_watering_detail line 506: the predictor is called on the
\* watering dates of a plant.
Predict ==
    /\ calc.fn = "none"
    /\ \E result \in predict_next_watering_date(calc.history) :
          calc' = [calc EXCEPT !.fn = "predict", !.result = result]
    /\ CalcFrame

NextPredict == Predict

SpecPredict == InitPredict /\ [][NextPredict]_vars

\* C16: on a history with at least two distinct dates the predictor returns
\* a date strictly after the latest date of the history.
PredictionIsAfterLastWatering ==
    (calc.fn = "predict" /\ Cardinality(RangeOf(calc.history)) >= 2) =>
        /\ calc.result # None
        /\ \A d \in RangeOf(calc.history) : calc.result > d

\* a history whose regression line falls short of the last watering: the
\* clamp decides
PredictionClamped ==
    /\ calc.fn = "predict"
    /\ RangeOf(calc.history) = {0, 1, 2, 3, 7}
    /\ calc.result = 8

\* C17: the predictor returns no prediction exactly when the history has
\* fewer than two distinct dates (empty, one date, one date repeated).
NoPredictionIffFewerThanTwoDates ==
    calc.fn = "predict" =>
        (calc.result = None <=> Cardinality(RangeOf(calc.history)) < 2)

\* one date recorded more than once: no prediction
NoPredictionForRepeatedDate ==
    /\ calc.fn = "predict"
    /\ Len(calc.history) >= 2
    /\ Cardinality(RangeOf(calc.history)) = 1
    /\ calc.result = None

\* the distinct dates of the history are g days apart, g >= 1
EvenlySpaced(history, g) ==
    LET dates == unique_sorted(history)
    IN  /\ Len(dates) >= 2
        /\ \A i \in 1..(Len(dates) - 1) : dates[i + 1] - dates[i] = g

\* C18: on distinct dates evenly spaced g >= 1 days apart, in any order and
\* with any duplicates, the predictor returns the last date plus g.
EvenSpacingPredictsNextGap ==
    calc.fn = "predict" =>
        \A g \in 1..MaxWaterDay :
            EvenlySpaced(calc.history, g) =>
                calc.result = unique_sorted(calc.history)[Len(unique_sorted(calc.history))] + g

\* days 0, 3, 6 given out of order and with a duplicate: day 9 is predicted
EvenSpacingShuffledWithDuplicate ==
    /\ calc.fn = "predict"
    /\ calc.history = <<6, 0, 3, 0>>
    /\ calc.result = 9

\* ============================================================ watering events
\* POST /api/plants/{plant_id}/waterings (app.record_plant_watering) on the
\* plant_watering_events table.  The row ids are fresh uuids and are left
\* out: water.events counts the rows of every (plant, watered_at) pair.
MaxRecordDay == 2

RecordDays == 0..MaxRecordDay

WaterPlants == {"p1", "p2"}

NoWateringRequest ==
    [plant_id |-> "none", watered_at |-> None, existing |-> FALSE, status |-> 0]

InitWater ==
    /\ profiles = <<>>
    /\ tasks = {}
    /\ today = 0
    /\ nextTaskId = 1
    /\ nextProfileId = 1
    /\ last = Last("init", None, None)
    /\ reqs = <<>>
    /\ calc = <<>>
    /\ water = [events |-> [pair \in WaterPlants \X RecordDays |-> 0],
                last_watered_at |-> [plant \in WaterPlants |-> None],
                req |-> NoWateringRequest]
    /\ cat = <<>>
    /\ village = <<>>

WaterFrame ==
    UNCHANGED <<profiles, tasks, nextTaskId, nextProfileId, last, reqs, calc, cat, village>>

\* Mutant of existing_event: the handler does not look for an event of the
\* same date.
existing_event_not_looked_up(events, plant_id, watered_at) == FALSE

\* record_plant_watering lines 1211-1213: an event of the plant with the same
\* watered_at
existing_event(events, plant_id, watered_at) == events[<<plant_id, watered_at>>] > 0

\* db.models.PlantWateringEvent, UniqueConstraint("plant_id", "watered_at"):
\* a second row for a pair fails the commit with an IntegrityError.
uq_plant_watering(events, plant_id, watered_at) == events[<<plant_id, watered_at>>] = 0

\* record_plant_watering: 422 for a date in the future (PlantWateringRequest
\* validator), else the event is added unless one exists for the date, the
\* plant is touched and the session committed; a commit that breaks the
\* unique constraint fails the request and writes nothing.
RecordWatering(plant_id, payload_watered_at) ==
    LET watered_at == IF payload_watered_at = None THEN today
                      ELSE payload_watered_at
        existing == existing_event(water.events, plant_id, watered_at)
    IN  /\ IF payload_watered_at # None /\ payload_watered_at > today
           THEN water' = [water EXCEPT
                    !.req = [plant_id |-> plant_id, watered_at |-> payload_watered_at,
                             existing |-> FALSE, status |-> 422]]
           ELSE IF ~existing /\ ~uq_plant_watering(water.events, plant_id, watered_at)
           THEN water' = [water EXCEPT
                    !.req = [plant_id |-> plant_id, watered_at |-> watered_at,
                             existing |-> existing, status |-> 500]]
           ELSE water' = [water EXCEPT
                    !.events[<<plant_id, watered_at>>] =
                        IF existing THEN @ ELSE @ + 1,
                    !.last_watered_at[plant_id] = today,
                    !.req = [plant_id |-> plant_id, watered_at |-> watered_at,
                             existing |-> existing, status |-> 201]]
        /\ UNCHANGED today
        /\ WaterFrame

\* Midnight (UTC): _today_utc_date() advances.
WaterTick ==
    /\ today < MaxRecordDay
    /\ today' = today + 1
    /\ water' = [water EXCEPT !.req = NoWateringRequest]
    /\ WaterFrame

NextWater ==
    \/ \E plant_id \in WaterPlants, watered_at \in {None} \cup RecordDays :
          RecordWatering(plant_id, watered_at)
    \/ WaterTick

SpecWater == InitWater /\ [][NextWater]_vars

\* C19: after any sequence of record-watering requests each plant has at most
\* one watering event per date, and recording a watering for a (plant, date)
\* that already has an event succeeds and leaves the events unchanged.
WateringEventsUniquePerDay ==
    [][ /\ \A pair \in WaterPlants \X RecordDays : water'.events[pair] <= 1
        /\ ( /\ water'.req.plant_id \in WaterPlants
             /\ water'.req.status # 422
             /\ water.events[<<water'.req.plant_id, water'.req.watered_at>>] > 0 )
           => ( /\ water'.req.status = 201
                /\ water'.events = water.events ) ]_vars

\* a watering recorded again for a (plant, date) that has an event, by a
\* request that gives no date
WateringRecordedAgain ==
    /\ water.req.status = 201
    /\ water.req.existing
    /\ water.events[<<water.req.plant_id, water.req.watered_at>>] = 1
    /\ water.req.watered_at = today

\* ====================================================== profile validation
\* C20: after any sequence of profile create and update requests every
\* persisted care profile has exactly one cadence field populated, the one of
\* its cadence_type: an interval profile has interval_days in 1..365 and no
\* weekly_days, a weekly profile has weekly_days and no interval_days
\* (a request that would break this is rejected and changes nothing).
ExactlyOneCadenceField ==
    \A pid \in DOMAIN profiles :
        /\ profiles[pid].cadence_type = INTERVAL =>
              /\ profiles[pid].interval_days \in 1..365
              /\ profiles[pid].weekly_days = {}
        /\ profiles[pid].cadence_type = WEEKLY =>
              /\ profiles[pid].weekly_days # {}
              /\ profiles[pid].interval_days = None

CompletedAtIffCompleted ==
    [][ /\ \A u \in tasks' : (u.completed_at # None) <=> (u.status = COMPLETED)
        /\ \A t \in tasks, u \in tasks' :
              (t.id = u.id /\ t.status = COMPLETED /\ u.status = COMPLETED)
                  => u.completed_at = t.completed_at ]_vars

\* the only task, completed on an earlier day, has just been updated again
CompletedTaskUpdatedLater ==
    /\ last.op = "task_update"
    /\ ~last.completed
    /\ \E t \in tasks :
          /\ tasks = {t}
          /\ t.status = COMPLETED
          /\ t.completed_at < today

\* ===================================================== edits off the schedule
\* C30: a care-profile update whose payload has none of cadence_type,
\* interval_days, weekly_days and start_date leaves every task unchanged: no
\* task is deleted, created or re-dated.
NonScheduleEditKeepsTasks ==
    [][(last'.op = "profile_update" /\ ~last'.schedule_changed) =>
          tasks' = tasks]_vars

\* a title edit of the only profile, whose pending task is no longer due on
\* the date a regeneration would give it
TitleEditWithStalePending ==
    /\ last.op = "profile_update"
    /\ ~last.schedule_changed
    /\ DOMAIN profiles = {1}
    /\ \E t \in PendingOfProfile(tasks, 1) :
          t.due_date # first_due_on_or_after(profiles[1], today)

\* ================================================= two task updates at once
\* Two PATCH requests on tasks, each in its own session, their statements
\* interleaved in any order.
NextComplete ==
    \/ \E payload \in CareProfileCreatePayloads : SetupProfileCreate(payload)
    \/ SetupTick
    \/ \E r \in Requests, task \in tasks, payload \in TaskUpdatePayloads :
          BeginTaskUpdate(r, task, payload)
    \/ \E r \in Requests : CommitTask(r)
    \/ \E r \in Requests : FollowUp(r)

SpecComplete == InitSteps /\ [][NextComplete]_vars

\* both requests completed the same pending profile-linked task and returned
BothCompletionsDone ==
    /\ \A r \in Requests :
          /\ reqs[r].kind = "task_update"
          /\ reqs[r].pc = "done"
          /\ reqs[r].completing
          /\ reqs[r].row.care_profile_id # None
    /\ reqs[1].row.id = reqs[2].row.id

\* C28: two concurrent requests that complete the same pending
\* profile-linked task produce at most one follow-up in every interleaving:
\* afterwards exactly one task is pending for the (plant, profile) pair.
ConcurrentCompletionsOneFollowUp ==
    BothCompletionsDone =>
        Cardinality(PendingOfProfile(tasks, reqs[1].row.care_profile_id)) = 1

\* ---------------------------------------------------------------------
\* The per-category services: a plant's care profile holds one interval per
\* care category, tasks carry a category, and the cadence service derives
\* due dates from the care log.  One plant is followed.  Of the four
\* categories with a cadence field, watering and feeding are followed
\* (pruning and misting go through the same code), and inspection stands
\* for the categories without a cadence field.
MaxCatDay == 1
MaxCatInterval == 1
MaxCatTaskId == 2
MaxBatchLen == 2

CatDays == 0..MaxCatDay
CatTaskIds == 1..MaxCatTaskId
CatIntervals == 1..MaxCatInterval

\* TaskState: the members the services name
TaskState == {PENDING, COMPLETED}
TaskCategory == {"watering", "feeding", "inspection"}

\* _CATEGORY_FIELDS
CATEGORY_FIELDS ==
    [watering |-> "watering_interval_days", feeding |-> "feeding_interval_days"]

\* _CATEGORY_ACTIONS
CATEGORY_ACTIONS ==
    [watering |-> "watered", feeding |-> "fed", inspection |-> "inspected"]

LogActions == {"watered"}

\* PlantCareProfile: an interval in days, or None, for each cadence field
CareProfiles ==
    [watering_interval_days : {None} \cup CatIntervals,
     feeding_interval_days : {None} \cup CatIntervals]

MaxOf(S) == CHOOSE x \in S : \A y \in S : y <= x

\* _latest_action_date: the logs come ordered by performed_at descending, the
\* first entry of the action is the latest one
latest_action_date(logs, action) ==
    LET dates == {entry.performed_at : entry \in {e \in logs : e.action = action}}
    IN  IF dates = {} THEN None ELSE MaxOf(dates)

\* _interval_for_category
interval_for_category(profile, category) ==
    IF category \in DOMAIN CATEGORY_FIELDS
    THEN profile[CATEGORY_FIELDS[category]]
    ELSE None

\* Mutant of compute_next_due: the care log is not consulted.
compute_next_due_ignoring_logs(profile, category, logs, reference_date) ==
    LET interval == interval_for_category(profile, category)
    IN  IF interval = None THEN None ELSE reference_date + interval

\* compute_next_due: None without an interval, else the latest logged action
\* of the category (the reference date when there is none) plus the interval
compute_next_due(profile, category, logs, reference_date) ==
    LET interval == interval_for_category(profile, category)
        last_performed == latest_action_date(logs, CATEGORY_ACTIONS[category])
        base == IF last_performed # None THEN last_performed ELSE reference_date
    IN  IF interval = None THEN None ELSE base + interval

CatTask(id, category, due_date) ==
    [id |-> id, category |-> category, state |-> PENDING,
     due_date |-> due_date, completed_at |-> None]

CatRow(rows, id) == CHOOSE t \in rows : t.id = id

CatPending(rows, category) ==
    {t \in rows : t.category = category /\ t.state = PENDING}

\* the first row of a list of rows, which the database returns in id order
FirstRow(rows) == CHOOSE t \in rows : \A u \in rows : t.id <= u.id

\* Mutant of schedule_follow_up_for_completion: a new task is added even when
\* a pending task of the category exists.
schedule_follow_up_always_adding(st, task, profile, logs, completed_on) ==
    LET next_due == compute_next_due(profile, task.category, logs, completed_on)
        called == [st EXCEPT !.followups = Append(@, task.id)]
    IN  IF task.category \notin DOMAIN CATEGORY_FIELDS \/ next_due = None
        THEN called
        ELSE [called EXCEPT
                 !.tasks = @ \cup {CatTask(st.next_id, task.category, next_due)},
                 !.next_id = @ + 1]

\* schedule_follow_up_for_completion, on the state st = [tasks, next_id,
\* followups]; followups lists the tasks the function was called for
schedule_follow_up_for_completion(st, task, profile, logs, completed_on) ==
    LET next_due == compute_next_due(profile, task.category, logs, completed_on)
        pending == CatPending(st.tasks, task.category)
        upcoming == FirstRow(pending)
        called == [st EXCEPT !.followups = Append(@, task.id)]
    IN  IF task.category \notin DOMAIN CATEGORY_FIELDS \/ next_due = None
        THEN called
        ELSE IF pending # {}
        THEN [called EXCEPT
                 !.tasks = (@ \ {upcoming})
                           \cup {[upcoming EXCEPT !.due_date = next_due]}]
        ELSE [called EXCEPT
                 !.tasks = @ \cup {CatTask(st.next_id, task.category, next_due)},
                 !.next_id = @ + 1]

\* update_task: the state machine of the task lifecycle (pending to completed
\* or skipped, both terminal; completing records completed_at) and the new
\* due date
update_task(task, payload, now) ==
    LET state == IF payload.state # "unset" /\ task.state = PENDING
                 THEN payload.state ELSE task.state
    IN  [task EXCEPT
            !.state = state,
            !.due_date = IF payload.due_date # None THEN payload.due_date ELSE @,
            !.completed_at = IF state = COMPLETED /\ task.state # COMPLETED
                             THEN now ELSE @]

\* apply_update
apply_update(st, id, payload, profile, logs, now) ==
    LET task == CatRow(st.tasks, id)
        previous_state == task.state
        updated == update_task(task, payload, now)
        stored == [st EXCEPT !.tasks = (@ \ {task}) \cup {updated}]
    IN  IF previous_state # COMPLETED /\ updated.state = COMPLETED
        THEN schedule_follow_up_for_completion(
                 stored, updated, profile, logs,
                 IF updated.completed_at # None THEN updated.completed_at ELSE now)
        ELSE stored

\* TaskBatchUpdate.ensure_unique_ids: list(dict.fromkeys(value)), the first
\* occurrence of each id in the order of the input
RECURSIVE ensure_unique_ids_from(_, _)
ensure_unique_ids_from(value, seen) ==
    IF value = <<>> THEN <<>>
    ELSE IF Head(value) \in seen
    THEN ensure_unique_ids_from(Tail(value), seen)
    ELSE <<Head(value)>>
         \o ensure_unique_ids_from(Tail(value), seen \cup {Head(value)})

\* Mutant of ensure_unique_ids: the ids are passed on as given.
ensure_unique_ids_keeping_repeats(value) == value

ensure_unique_ids(value) == ensure_unique_ids_from(value, {})

\* bulk_update_tasks: update_task on each task of the batch, in order
RECURSIVE bulk_update_tasks(_, _, _, _)
bulk_update_tasks(st, task_ids, payload, now) ==
    IF task_ids = <<>> THEN st
    ELSE LET task == CatRow(st.tasks, Head(task_ids))
             stored == [st EXCEPT !.tasks = (@ \ {task})
                                            \cup {update_task(task, payload, now)}]
         IN  bulk_update_tasks(stored, Tail(task_ids), payload, now)

\* apply_batch_update, the loop over the updated tasks
RECURSIVE follow_up_each(_, _, _, _, _)
follow_up_each(st, task_ids, profile, logs, now) ==
    IF task_ids = <<>> THEN st
    ELSE LET task == CatRow(st.tasks, Head(task_ids))
             next == IF task.state = COMPLETED
                     THEN schedule_follow_up_for_completion(
                              st, task, profile, logs,
                              IF task.completed_at # None
                              THEN task.completed_at ELSE now)
                     ELSE st
         IN  follow_up_each(next, Tail(task_ids), profile, logs, now)

\* apply_batch_update
apply_batch_update(st, task_ids, payload, profile, logs, now) ==
    follow_up_each(bulk_update_tasks(st, task_ids, payload, now),
                   task_ids, profile, logs, now)

\* the single updates of the batch, one request after the other
RECURSIVE apply_update_each(_, _, _, _, _, _)
apply_update_each(st, task_ids, payload, profile, logs, now) ==
    IF task_ids = <<>> THEN st
    ELSE apply_update_each(
             apply_update(st, Head(task_ids), payload, profile, logs, now),
             Tail(task_ids), payload, profile, logs, now)

\* Mutant of sync_category: only the first pending task of a category with an
\* interval gets the new due date.
sync_category_first_pending_only(st, category, profile, logs, reference_date) ==
    LET interval == profile[CATEGORY_FIELDS[category]]
        pending == CatPending(st.tasks, category)
        next_due == compute_next_due(profile, category, logs, reference_date)
    IN  IF interval = None
        THEN [st EXCEPT !.tasks = (@ \ pending)
                 \cup {[t EXCEPT !.state = COMPLETED, !.completed_at = reference_date]
                       : t \in pending}]
        ELSE IF pending # {}
        THEN [st EXCEPT !.tasks = (@ \ {FirstRow(pending)})
                 \cup {[FirstRow(pending) EXCEPT !.due_date = next_due]}]
        ELSE [st EXCEPT !.tasks = @ \cup {CatTask(st.next_id, category, next_due)},
                        !.next_id = @ + 1]

\* sync_tasks_for_profile, the body of the loop for one category
sync_category(st, category, profile, logs, reference_date) ==
    LET interval == profile[CATEGORY_FIELDS[category]]
        pending == CatPending(st.tasks, category)
        next_due == compute_next_due(profile, category, logs, reference_date)
    IN  IF interval = None
        THEN [st EXCEPT !.tasks = (@ \ pending)
                 \cup {[t EXCEPT !.state = COMPLETED, !.completed_at = reference_date]
                       : t \in pending}]
        ELSE IF pending # {}
        THEN [st EXCEPT !.tasks = (@ \ pending)
                 \cup {[t EXCEPT !.due_date = next_due] : t \in pending}]
        ELSE [st EXCEPT !.tasks = @ \cup {CatTask(st.next_id, category, next_due)},
                        !.next_id = @ + 1]

\* sync_tasks_for_profile: the categories of _CATEGORY_FIELDS in order
sync_tasks_for_profile(st, profile, logs, reference_date) ==
    sync_category(sync_category(st, "watering", profile, logs, reference_date),
                  "feeding", profile, logs, reference_date)

\* TaskUpdate and TaskBatchUpdate: the state and the due date, each optional.
\* A payload asking for state pending changes no state (pending is where
\* every transition starts) and is not offered.
CatPayloads == [state : {"unset", COMPLETED}, due_date : {None} \cup CatDays]

\* PlantCareProfileUpdate: the fields that are set, with exclude_unset
CareProfileUpdates ==
    [watering_interval_days : {Unset, None} \cup CatIntervals,
     feeding_interval_days : {Unset, None} \cup CatIntervals]

BatchIds(rows) ==
    UNION {[1..n -> {t.id : t \in rows}] : n \in 1..MaxBatchLen}

CatState == [tasks |-> cat.tasks, next_id |-> cat.next_id, followups |-> <<>>]

NoCatPayload == [state |-> "unset", due_date |-> None]

CatLast(op, task_ids, payload, followups) ==
    [op |-> op, task_ids |-> task_ids, payload |-> payload, followups |-> followups]

InitCategory ==
    /\ profiles = <<>>
    /\ tasks = {}
    /\ today = 0
    /\ nextTaskId = 1
    /\ nextProfileId = 1
    /\ last = Last("init", None, None)
    /\ reqs = <<>>
    /\ calc = <<>>
    /\ water = <<>>
    /\ village = <<>>
    /\ cat = [care_profile |-> [watering_interval_days |-> None,
                                feeding_interval_days |-> None],
              tasks |-> {}, logs |-> {}, next_id |-> 1,
              last |-> CatLast("init", <<>>, NoCatPayload, <<>>)]

CategoryFrame ==
    UNCHANGED <<profiles, tasks, nextTaskId, nextProfileId, last, reqs, calc,
                water, village>>

\* what a request leaves behind: the tables and the record of the request
CatStored(st, op, task_ids, payload) ==
    LET stored == st
    IN  /\ stored.next_id <= MaxCatTaskId + 1
        /\ cat' = [cat EXCEPT !.tasks = stored.tasks, !.next_id = stored.next_id,
                              !.last = CatLast(op, task_ids, payload,
                                                 stored.followups)]
        /\ today' = today
        /\ CategoryFrame

\* POST /plants/{plant_id}/tasks: schedule_task
ScheduleTask(category, due_date) ==
    /\ cat.next_id <= MaxCatTaskId
    /\ CatStored([CatState EXCEPT
                     !.tasks = @ \cup {CatTask(cat.next_id, category, due_date)},
                     !.next_id = @ + 1],
                 "schedule_task", <<>>, NoCatPayload)

\* PATCH /tasks/{task_id}: apply_update
ApplyUpdate(id, payload) ==
    /\ id \in {t.id : t \in cat.tasks}
    /\ CatStored(apply_update(CatState, id, payload, cat.care_profile, cat.logs, today),
                 "apply_update", <<id>>, payload)

\* POST /tasks/batch: TaskBatchUpdate validates the payload, then
\* apply_batch_update
ApplyBatchUpdate(task_ids, payload) ==
    /\ task_ids \in BatchIds(cat.tasks)
    /\ CatStored(apply_batch_update(CatState, ensure_unique_ids(task_ids), payload,
                                    cat.care_profile, cat.logs, today),
                 "apply_batch_update", task_ids, payload)

\* update_care_profile, lines 88-95: the payload merged into the profile
merged_care_profile(profile, updates) ==
    [key \in DOMAIN profile |->
        IF updates[key] = Unset THEN profile[key] ELSE updates[key]]

\* PUT /plants/{plant_id}/care_profile: update_care_profile
UpdateCareProfile(updates) ==
    LET new_profile == merged_care_profile(cat.care_profile, updates)
        st == sync_tasks_for_profile(CatState, new_profile, cat.logs, today)
    IN  /\ st.next_id <= MaxCatTaskId + 1
        /\ cat' = [cat EXCEPT !.care_profile = new_profile,
                              !.tasks = st.tasks, !.next_id = st.next_id,
                              !.last = CatLast("update_care_profile", <<>>, NoCatPayload, <<>>)]
        /\ today' = today
        /\ CategoryFrame

\* POST /plants/{plant_id}/logs: add_log; performed_at defaults to now
AddLog(action, performed_at) ==
    /\ cat' = [cat EXCEPT
                  !.logs = @ \cup {[action |-> action,
                                    performed_at |-> IF performed_at = None
                                                     THEN today ELSE performed_at]},
                  !.last = CatLast("add_log", <<>>, NoCatPayload, <<>>)]
    /\ today' = today
    /\ CategoryFrame

\* midnight
CategoryTick ==
    /\ today < MaxCatDay
    /\ today' = today + 1
    /\ cat' = [cat EXCEPT !.last = CatLast("tick", <<>>, NoCatPayload, <<>>)]
    /\ CategoryFrame

NextCategory ==
    \/ \E category \in TaskCategory, due_date \in CatDays :
          ScheduleTask(category, due_date)
    \/ \E id \in CatTaskIds, payload \in CatPayloads : ApplyUpdate(id, payload)
    \/ \E task_ids \in BatchIds(cat.tasks), payload \in CatPayloads :
          ApplyBatchUpdate(task_ids, payload)
    \/ \E updates \in CareProfileUpdates : UpdateCareProfile(updates)
    \/ \E action \in LogActions, performed_at \in {None} \cup CatDays :
          AddLog(action, performed_at)
    \/ CategoryTick

SpecCategory == InitCategory /\ [][NextCategory]_vars

RangeOfIds(task_ids) == {task_ids[i] : i \in DOMAIN task_ids}

\* the step is a batch request
BatchStep == cat'.last.op = "apply_batch_update"

\* C21: a batch update schedules a follow-up for exactly the tasks that it
\* moved from a state other than completed to completed, and it leaves the
\* tasks as the single updates of its ids, applied one after the other, would.
BatchUpdateEqualsSingleUpdates ==
    [][BatchStep =>
          LET task_ids == ensure_unique_ids(cat'.last.task_ids)
              singles == apply_update_each(CatState, task_ids, cat'.last.payload,
                                           cat.care_profile, cat.logs, today)
          IN  /\ RangeOfIds(cat'.last.followups)
                   = {id \in RangeOfIds(task_ids) :
                         /\ CatRow(cat.tasks, id).state # COMPLETED
                         /\ CatRow(cat'.tasks, id).state = COMPLETED}
              /\ cat'.tasks = singles.tasks]_vars

FirstIndex(task_ids, id) ==
    CHOOSE i \in DOMAIN task_ids :
        task_ids[i] = id /\ \A j \in 1..(i - 1) : task_ids[j] # id

\* once is task_ids with the repetitions removed
RepetitionsRemoved(task_ids, once) ==
    /\ RangeOfIds(once) = RangeOfIds(task_ids)
    /\ Len(once) = Cardinality(RangeOfIds(task_ids))
    /\ \A i, j \in DOMAIN once :
          i < j => FirstIndex(task_ids, once[i]) < FirstIndex(task_ids, once[j])

\* C22: a batch whose task_ids repeats an id leaves the tasks as the batch
\* with the repetitions removed leaves them, and no task gets more than one
\* follow-up.
RepeatedIdsCountOnce ==
    [][BatchStep =>
          /\ \A once \in BatchIds(cat.tasks) :
                RepetitionsRemoved(cat'.last.task_ids, once) =>
                    LET st == apply_batch_update(CatState, once, cat'.last.payload,
                                                 cat.care_profile, cat.logs, today)
                    IN  /\ cat'.tasks = st.tasks
                        /\ cat'.next_id = st.next_id
                        /\ cat'.last.followups = st.followups
          /\ \A i, j \in DOMAIN cat'.last.followups :
                cat'.last.followups[i] = cat'.last.followups[j] => i = j]_vars

\* a batch naming the same task twice completed it and added its follow-up
RepeatedIdCompletedOnce ==
    /\ cat.last.op = "apply_batch_update"
    /\ Len(cat.last.task_ids) = 2
    /\ cat.last.task_ids[1] = cat.last.task_ids[2]
    /\ cat.last.followups = <<cat.last.task_ids[1]>>
    /\ \E done \in cat.tasks, new \in cat.tasks :
          /\ done.id = cat.last.task_ids[1]
          /\ done.state = COMPLETED
          /\ done.completed_at = today
          /\ new.id = cat.next_id - 1
          /\ new.id # done.id
          /\ new.state = PENDING
          /\ new.category = done.category

\* the step is a single update that completed the pending task named
CompletesPending(id) ==
    /\ cat'.last.op = "apply_update"
    /\ cat'.last.task_ids = <<id>>
    /\ \E before \in cat.tasks, after \in cat'.tasks :
          /\ before.id = id /\ after.id = id
          /\ before.state = PENDING /\ after.state = COMPLETED

\* C24: completing a pending task of a category whose interval is configured
\* leaves exactly one pending task of that category, due on the completion
\* date plus the interval of the category.
CompletionLeavesOnePendingAtInterval ==
    [][\A id \in CatTaskIds :
          LET category == CatRow(cat.tasks, id).category
              interval == interval_for_category(cat.care_profile, category)
              pending == CatPending(cat'.tasks, category)
          IN  (CompletesPending(id) /\ interval # None) =>
                  /\ Cardinality(pending) = 1
                  /\ \A t \in pending : t.due_date = today + interval]_vars

\* C29: after sync_tasks_for_profile every category whose interval is set
\* has at least one pending task and all its pending tasks are due on the
\* date compute_next_due gives (the latest logged action of the category,
\* else the reference date, plus the interval); every category whose
\* interval is unset has no pending task left, the ones it had are completed
\* with completed_at set; tasks of categories without a cadence field are
\* untouched.
SyncSettlesEveryCategory ==
    [][cat'.last.op = "update_care_profile" =>
          /\ \A category \in DOMAIN CATEGORY_FIELDS :
                LET interval == cat'.care_profile[CATEGORY_FIELDS[category]]
                    logged == latest_action_date(cat.logs, CATEGORY_ACTIONS[category])
                    pending == CatPending(cat'.tasks, category)
                IN  IF interval # None
                    THEN /\ pending # {}
                         /\ \A t \in pending :
                               t.due_date = interval
                                   + (IF logged # None THEN logged ELSE today)
                    ELSE /\ pending = {}
                         /\ \A t \in CatPending(cat.tasks, category) :
                               /\ CatRow(cat'.tasks, t.id).state = COMPLETED
                               /\ CatRow(cat'.tasks, t.id).completed_at # None
          /\ {t \in cat'.tasks : t.category \notin DOMAIN CATEGORY_FIELDS}
                = {t \in cat.tasks : t.category \notin DOMAIN CATEGORY_FIELDS}]_vars

\* a profile update found two pending watering tasks and a watering logged on
\* another day than today
SyncedTwoPendingFromLog ==
    /\ cat.last.op = "update_care_profile"
    /\ cat.care_profile.watering_interval_days # None
    /\ cat.care_profile.feeding_interval_days = None
    /\ Cardinality(CatPending(cat.tasks, "watering")) = 2
    /\ latest_action_date(cat.logs, "watered") \notin {None, today}
    /\ \A t \in CatPending(cat.tasks, "watering") :
          t.due_date = latest_action_date(cat.logs, "watered")
                           + cat.care_profile.watering_interval_days

\* ---------------------------------------------------------------------
\* Villages: PUT and DELETE carry the updatedAt token of the version the
\* client read.  One village is followed; its handlers run in worker
\* threads, each with its own Session, so two requests may overlap.  A
\* request is followed in two steps: the load with the version check, and
\* the commit.  (The plant handlers check their token the same way.)
MaxClock == 3

VillageNames == {"a", "b"}

\* the tokens a client may send: every serialized timestamp
VillageTokens == (0 - 1)..MaxClock

\* a timestamp as the database returns it (no zone) or as the request
\* carries it (UTC)
Naive(wall) == [wall |-> wall, tz |-> "naive"]
Aware(wall) == [wall |-> wall, tz |-> "utc"]

\* _serialize_timestamp: astimezone(utc) reads a timestamp without zone as
\* local time, offset is the server's distance from UTC
serialize_timestamp(value, offset) ==
    IF value.tz = "naive" THEN value.wall - offset ELSE value.wall

NoVillageRequest ==
    [kind |-> "none", pc |-> "idle", token |-> 0, name |-> "a", now |-> 0,
     status |-> 0]

InitVillage ==
    /\ profiles = <<>>
    /\ tasks = {}
    /\ today = 0
    /\ nextTaskId = 1
    /\ nextProfileId = 1
    /\ last = Last("init", None, None)
    /\ reqs = <<>>
    /\ calc = <<>>
    /\ water = <<>>
    /\ cat = <<>>
    /\ \E offset \in {0, 1} :
          village = [row |-> [state |-> "none", name |-> "a", updated_at |-> 0],
                     clock |-> 0,
                     offset |-> offset,
                     reqs |-> [r \in Requests |-> NoVillageRequest],
                     succeeded |-> [token \in VillageTokens |-> 0]]

VillageFrame ==
    UNCHANGED <<profiles, tasks, today, nextTaskId, nextProfileId, last, reqs,
                calc, water, cat>>

\* create_village: updated_at takes the column default, the time of the insert
CreateVillage(name) ==
    /\ village.row.state = "none"
    /\ village' = [village EXCEPT
                      !.row = [state |-> "present", name |-> name,
                               updated_at |-> village.clock],
                      !.clock = @ + 1]
    /\ VillageFrame

\* _assert_village_version: TRUE when the request may go on
assert_village_version(row, expected, offset) ==
    serialize_timestamp(Naive(row.updated_at), offset)
        = serialize_timestamp(Aware(expected), offset)

\* update_village lines 1114-1131 and delete_village lines 1146-1156:
\* session.get, the version check, and the changes made in memory
BeginVillageRequest(r, kind, token, name) ==
    LET served == [NoVillageRequest EXCEPT
                      !.kind = kind, !.token = token, !.name = name, !.pc = "done"]
    IN  /\ village.reqs[r].pc # "loaded"
        /\ village.row.state # "none"
        /\ village.clock < MaxClock
        /\ village' =
              IF village.row.state = "deleted"
              THEN [village EXCEPT !.reqs[r] = [served EXCEPT !.status = 404]]
              ELSE IF ~assert_village_version(village.row, token, village.offset)
              THEN [village EXCEPT !.reqs[r] = [served EXCEPT !.status = 409]]
              ELSE [village EXCEPT
                       !.reqs[r] = [served EXCEPT !.pc = "loaded",
                                                  !.now = village.clock],
                       !.clock = @ + 1]
        /\ VillageFrame

\* session.commit() of update_village (line 1132) and delete_village (line
\* 1157): the UPDATE names the row by its id only; on a row deleted meanwhile
\* it matches nothing and the request fails, a DELETE only warns
CommitVillage(r) ==
    LET req == village.reqs[r]
        gone == village.row.state = "deleted"
        status == IF req.kind = "update" /\ gone THEN 500 ELSE 200
    IN  /\ req.pc = "loaded"
        /\ village' = [village EXCEPT
              !.row = IF req.kind = "delete" THEN [@ EXCEPT !.state = "deleted"]
                      ELSE IF gone THEN @
                      ELSE [@ EXCEPT !.name = req.name, !.updated_at = req.now],
              !.reqs[r] = [req EXCEPT !.pc = "done", !.status = status],
              !.succeeded[req.token] = IF status = 200 THEN @ + 1 ELSE @]
        /\ VillageFrame

NextVillage ==
    \/ \E name \in VillageNames : CreateVillage(name)
    \/ \E r \in Requests, kind \in {"update", "delete"},
          token \in VillageTokens, name \in VillageNames :
          BeginVillageRequest(r, kind, token, name)
    \/ \E r \in Requests : CommitVillage(r)

SpecVillage == InitVillage /\ [][NextVillage]_vars

\* C25: an update or delete whose updatedAt token differs from the stored
\* updated_at is rejected with 409 and leaves the record unchanged; of the
\* requests carrying the same token, concurrent ones included, at most one
\* succeeds.
StaleTokenRejectedOneWinner ==
    [][/\ \A r \in Requests :
             (village'.reqs[r] # village.reqs[r] /\ village'.reqs[r].pc # "loaded")
                 => \/ village'.reqs[r].status # 200
                    \/ /\ village.row.state = "present"
                       /\ village'.reqs[r].token
                            = serialize_timestamp(Naive(village.row.updated_at),
                                                  village.offset)
       /\ \A r \in Requests :
             (village'.reqs[r] # village.reqs[r] /\ village'.reqs[r].status = 409)
                 => village'.row = village.row
       /\ \A token \in VillageTokens : village'.succeeded[token] <= 1]_vars

\* ---------------------------------------------------------------------
\* The due-watering list and its dismissals: GET /api/watering/due and POST
\* /api/watering/due/{plant_id}/dismiss on the registry _WATERING_DISMISSALS
\* of the running process.  water.history holds the watered_at dates of each
\* plant, water.dismissals the registry, water.query the request served last.
MaxDismissDay == 3

DismissDays == 0..MaxDismissDay

\* date.isoformat() and date.fromisoformat(); no date is the empty value
isoformat(value) == IF value = None THEN <<>> ELSE <<"date", value>>
fromisoformat(text) == text[2]

\* _serialize_watering_detail: the values nextWateringDate can take, and
\* hasWateringToday
next_watering_dates(history) ==
    {isoformat(next_date) : next_date \in predict_next_watering_date(SortedSeq(history))}
has_watering_today(history, day) == isoformat(day) \in {isoformat(d) : d \in history}

\* the test both handlers make on a plant: a predicted date that is not
\* after today, and no watering today
requires_watering(next_watering, watered_today, day) ==
    /\ next_watering # <<>>
    /\ ~watered_today
    /\ ~(fromisoformat(next_watering) > day)

\* Mutant of active_watering_dismissals: entries of earlier days stay and count.
active_watering_dismissals_keeping_stale(registry, day) ==
    [registry |-> registry,
     active |-> {plant_id \in DOMAIN registry :
                    registry[plant_id] # None /\ registry[plant_id] <= day}]

\* _active_watering_dismissals: the entries of earlier days are removed, the
\* plants dismissed today returned
active_watering_dismissals(registry, day) ==
    LET expired == {plant_id \in DOMAIN registry :
                       registry[plant_id] # None /\ registry[plant_id] < day}
        kept == [plant_id \in DOMAIN registry |->
                    IF plant_id \in expired THEN None ELSE registry[plant_id]]
    IN  [registry |-> kept,
         active |-> {plant_id \in DOMAIN kept : kept[plant_id] = day}]

NoDueQuery ==
    [op |-> "none", plant_id |-> "none", status |-> 0,
     next |-> [plant_id \in WaterPlants |-> <<>>], plants |-> {}, purged |-> {}]

InitDismiss ==
    /\ profiles = <<>>
    /\ tasks = {}
    /\ today = 0
    /\ nextTaskId = 1
    /\ nextProfileId = 1
    /\ last = Last("init", None, None)
    /\ reqs = <<>>
    /\ calc = <<>>
    /\ cat = <<>>
    /\ village = <<>>
    /\ water = [history |-> [plant_id \in WaterPlants |-> {}],
                dismissals |-> [plant_id \in WaterPlants |-> None],
                query |-> NoDueQuery]

\* record_plant_watering: a watering of today or of an earlier date
WaterOn(plant_id, watered_at) ==
    /\ watered_at <= today
    /\ water' = [water EXCEPT
                    !.history[plant_id] = @ \cup {watered_at},
                    !.query = [NoDueQuery EXCEPT !.op = "water", !.plant_id = plant_id,
                                                 !.status = 201]]
    /\ UNCHANGED today
    /\ WaterFrame

\* list_due_watering_plants
ListDue ==
    \E next \in [WaterPlants -> UNION {next_watering_dates(water.history[p])
                                          : p \in WaterPlants}] :
        LET dismissed == active_watering_dismissals(water.dismissals, today)
        IN  /\ \A p \in WaterPlants : next[p] \in next_watering_dates(water.history[p])
            /\ water' = [water EXCEPT
                  !.dismissals = dismissed.registry,
                  !.query = [NoDueQuery EXCEPT
                      !.op = "list", !.status = 200, !.next = next,
                      !.plants =
                          {p \in WaterPlants :
                              /\ requires_watering(
                                     next[p],
                                     has_watering_today(water.history[p], today),
                                     today)
                              /\ p \notin dismissed.active},
                      !.purged = {p \in WaterPlants :
                                     dismissed.registry[p] # water.dismissals[p]}]]
            /\ UNCHANGED today
            /\ WaterFrame

\* dismiss_due_watering_plant: 400 unless the plant requires watering today
DismissDue(plant_id) ==
    \E next_watering \in next_watering_dates(water.history[plant_id]) :
        LET accepted == requires_watering(
                            next_watering,
                            has_watering_today(water.history[plant_id], today),
                            today)
        IN  /\ water' = [water EXCEPT
                  !.dismissals[plant_id] = IF accepted THEN today ELSE @,
                  !.query = [NoDueQuery EXCEPT
                      !.op = "dismiss", !.plant_id = plant_id,
                      !.status = IF accepted THEN 200 ELSE 400,
                      !.next[plant_id] = next_watering]]
            /\ UNCHANGED today
            /\ WaterFrame

\* midnight (UTC)
DismissTick ==
    /\ today < MaxDismissDay
    /\ today' = today + 1
    /\ water' = [water EXCEPT !.query = NoDueQuery]
    /\ WaterFrame

NextDismiss ==
    \/ \E plant_id \in WaterPlants, watered_at \in DismissDays :
          WaterOn(plant_id, watered_at)
    \/ ListDue
    \/ \E plant_id \in WaterPlants : DismissDue(plant_id)
    \/ DismissTick

SpecDismiss == InitDismiss /\ [][NextDismiss]_vars

\* what the claim calls due, for the date the handler predicted
CurrentlyDue(plant_id, next_watering) ==
    /\ next_watering # <<>>
    /\ next_watering[2] <= today
    /\ today \notin water.history[plant_id]

\* C27: a dismissal of day D stays in the registry for the rest of day D and
\* hides the plant from every list of day D; a list of a later day purges it
\* and shows every plant that is due; a dismissal is accepted exactly for a
\* plant that is due (a predicted date that is today or earlier, no watering
\* today), and a rejected one leaves the registry unchanged.
DismissalLastsTheDay ==
    [][/\ \A p \in WaterPlants :
             (water.dismissals[p] = today /\ today' = today)
                 => water'.dismissals[p] = today
       /\ water'.query.op = "list" =>
             /\ water'.query.plants =
                   {p \in WaterPlants :
                       /\ CurrentlyDue(p, water'.query.next[p])
                       /\ water.dismissals[p] # today}
             /\ \A p \in WaterPlants : water'.dismissals[p] \in {None, today}
       /\ water'.query.op = "dismiss" =>
             LET p == water'.query.plant_id
                 due == CurrentlyDue(p, water'.query.next[p])
             IN  /\ (water'.query.status = 200) <=> due
                 /\ water'.dismissals =
                       IF due THEN [water.dismissals EXCEPT ![p] = today]
                       ELSE water.dismissals]_vars

\* a plant dismissed on an earlier day is listed again, its entry purged
ListedAgainNextDay ==
    /\ water.query.op = "list"
    /\ \E p \in water.query.plants :
          /\ p \in water.query.purged
          /\ water.dismissals[p] = None
    /\ \E p \in WaterPlants :
          /\ water.dismissals[p] = today
          /\ p \notin water.query.plants
====
